---- MODULE Spec2Model ----
(***************************************************************************)
(* The human-avatar pipeline of addons/voice as state machines: the        *)
(* orchestrator (pipeline/orchestrator.py) and the create command around   *)
(* it, PersonProfile persistence (research/extractor.py), the avatar       *)
(* engine (avatar/avatar.py) and the chat loop around it (pipeline/cli.py).*)
(* Of addons/ears: the shared transcription engine (src/engine.py) and the *)
(* transcription handlers of the HTTP server (src/server.py).              *)
(*                                                                         *)
(* Strings that the code inspects character by character (subject names)   *)
(* are sequences of one-character strings.  A path is a record             *)
(* [anchor, parts] as pathlib.PurePosixPath parses it.  A file's content   *)
(* is a record with a kind field; JSON documents are the dictionaries the  *)
(* code dumps and reads (the json module's text layer round-trips them).   *)
(*                                                                         *)
(* Writing to standard output succeeds, so no print raises and the outer   *)
(* except clause of run() (lines 367-369) is never entered.  The imports   *)
(* at the head of each phase's try block succeed: the packages the phases  *)
(* depend on are installed.  Every other call a phase makes may raise.     *)
(***************************************************************************)
EXTENDS Integers, Sequences, FiniteSets, TLC

(***************************************************************************)
(* Bounds of the model.                                                    *)
(***************************************************************************)
MaxNameLen == 2

(***************************************************************************)
(* Subject names.                                                          *)
(***************************************************************************)
Chars == {"J", "j", " ", "\t", "_", "/"}

Names == UNION {[1..n -> Chars] : n \in 0..MaxNameLen}

\* str.lower() on the characters of Chars
lower_char(c) == IF c = "J" THEN "j" ELSE c

lower(s) == [i \in 1..Len(s) |-> lower_char(s[i])]

\* str.replace(old, new) for one-character old and new
replace(s, old, new) == [i \in 1..Len(s) |-> IF s[i] = old THEN new ELSE s[i]]

(***************************************************************************)
(* pathlib: Path(data_dir) / safe_name on a POSIX system.                  *)
(***************************************************************************)
\* PipelineConfig.data_dir = "data/subjects", already split into components
data_dir == [anchor |-> "", parts |-> << <<"data">>, <<"subjects">> >>]

RECURSIVE LeadingSlashes(_)
LeadingSlashes(s) ==
    IF s = <<>> \/ Head(s) # "/" THEN 0 ELSE 1 + LeadingSlashes(Tail(s))

\* the root of a POSIX path: exactly two leading slashes are kept as "//"
PathAnchor(s) ==
    LET k == LeadingSlashes(s)
    IN  IF k = 0 THEN "" ELSE IF k = 2 THEN "//" ELSE "/"

\* the components of a path string: split at "/", empty components dropped
RECURSIVE SplitParts(_, _)
SplitParts(s, cur) ==
    IF s = <<>> THEN (IF cur = <<>> THEN <<>> ELSE <<cur>>)
    ELSE IF Head(s) = "/"
         THEN (IF cur = <<>> THEN <<>> ELSE <<cur>>) \o SplitParts(Tail(s), <<>>)
         ELSE SplitParts(Tail(s), Append(cur, Head(s)))

\* PurePath.__truediv__: an absolute right operand replaces the left one
PathJoin(p, s) ==
    IF PathAnchor(s) # ""
    THEN [anchor |-> PathAnchor(s), parts |-> SplitParts(s, <<>>)]
    ELSE [anchor |-> p.anchor, parts |-> p.parts \o SplitParts(s, <<>>)]

\* Path / "a" / "b" for literal components
PathBelow(p, comps) == [anchor |-> p.anchor, parts |-> p.parts \o comps]

NoPath == [anchor |-> "None", parts |-> <<>>]

\* PipelineConfig.get_subject_dir: a dropped lower()
get_subject_dir_nolower(subject_name) ==
    PathJoin(data_dir, replace(subject_name, " ", "_"))

\* PipelineConfig.get_subject_dir
get_subject_dir(subject_name) ==
    LET safe_name == replace(lower(subject_name), " ", "_")
    IN  PathJoin(data_dir, safe_name)

(***************************************************************************)
(* Files of a subject directory and what they hold.                        *)
(***************************************************************************)
F_profile  == "research/profile.json"
F_source   == "audio/source.wav"
F_vocals   == "audio/separated_vocals.wav"
F_docs     == "docs/profile.md"
F_facettes == "docs/facettes.md"
F_persona  == "persona.json"
F_prompt   == "system_prompt.txt"

Files == {F_profile, F_source, F_vocals, F_docs, F_facettes, F_persona, F_prompt}

Absent  == [kind |-> "absent"]
\* a file that open(path, "w") created or truncated and nothing was written to
Empty   == [kind |-> "empty"]
\* a file that is not a JSON object with a "name" key
Garbage == [kind |-> "garbage"]
Audio   == [kind |-> "audio"]

\* the directories HumanPipeline.__init__ creates, "." being the subject directory
created_dirs_novoice == {".", "research", "audio", "docs"}

created_dirs == {".", "research", "audio", "voice", "docs"}

SubDirs == {"research", "audio", "voice", "docs"}

\* a subject directory that an earlier construction has already set up
AllDirs == SubDirs \cup {"."}

PhaseOrder == <<"research", "audio", "documentation", "persona">>

\* the artifacts each phase writes
Artifacts(ph) ==
    CASE ph = "research"      -> {F_profile}
      [] ph = "audio"         -> {F_source, F_vocals}
      [] ph = "documentation" -> {F_docs, F_facettes}
      [] ph = "persona"       -> {F_persona, F_prompt}

PhaseIndex(ph) == CHOOSE i \in 1..4 : PhaseOrder[i] = ph

(***************************************************************************)
(* Exceptions: what str(e) can be.  An exception raised without a message  *)
(* (a failed assert, MemoryError(), TimeoutError()) has the empty string.  *)
(***************************************************************************)
ExcMsgs == {"", "boom"}

NoneStr == [is_none |-> TRUE, text |-> ""]

Str(m) == [is_none |-> FALSE, text |-> m]

(***************************************************************************)
(* research/extractor.py and avatar/prompt_generator.py, as far as the     *)
(* orchestrator uses them.  facettes is whether the list is non-empty.     *)
(***************************************************************************)
\* PersonSearcher.search: the results carry the name they were asked for
search(name) == [name |-> name]

\* InfoExtractor.extract_profile with the name lowercased on the way
extract_profile_lowered(search_results) ==
    [name |-> lower(search_results.name), facettes |-> FALSE]

\* InfoExtractor.extract_profile: never fills facettes
extract_profile(search_results) ==
    [name |-> search_results.name, facettes |-> FALSE]

\* PersonProfile.to_dict
to_dict(profile) ==
    [kind |-> "profile", name |-> profile.name, facettes |-> profile.facettes]

\* PersonProfile.load reads a document that json.load accepts and has "name"
Loadable(doc) == doc.kind = "profile"

\* PersonProfile.load
load(doc) == [name |-> doc.name, facettes |-> doc.facettes]

\* PromptGenerator.generate followed by the dictionary PersonaPrompt.save dumps
generate(profile) ==
    [kind |-> "persona", name |-> profile.name, facettes |-> profile.facettes]

\* PersonaPrompt.system_prompt: DEFAULT_TEMPLATE filled with the profile's name
system_prompt(persona) == [kind |-> "prompt", name |-> persona.name]

\* DocumentGenerator.generate_profile / generate_facettes output
markdown(name) == [kind |-> "markdown", name |-> name]

(***************************************************************************)
(* research/extractor.py: PersonProfile with all its fields, and the JSON  *)
(* document it is saved to.  A dictionary is a function on its keys; an    *)
(* Optional[str] is NoneStr or Str(s).                                     *)
(***************************************************************************)
MaxListLen == 1

Lists(S) == UNION {[1..n -> S] : n \in 0..MaxListLen}

Optional(S) == {NoneStr} \cup {Str(x) : x \in S}

EmptyDict == [k \in {} |-> NoneStr]

\* dict.get(key, default)
get(data, key, default) == IF key \in DOMAIN data THEN data[key] ELSE default

\* class Facette
Facettes ==
    [name : {"f"}, description : {"d"}, color : Optional({"red"}),
     symbol : {NoneStr}, keywords : {<<>>}, sources : Lists({"s"})]

\* class SocialProfile
SocialProfiles ==
    [platform : {"x"}, url : {"u"}, username : {NoneStr}, verified : BOOLEAN]

\* class PersonProfile
PersonProfiles ==
    [name : {"J", "K"}, aliases : {<<>>}, professions : Lists({"actor"}),
     bio : Optional({"b"}), location : Optional({"Paris"}),
     social_profiles : {<<>>} \cup {<<sp>> : sp \in SocialProfiles},
     facettes : Lists(Facettes), keywords : Lists({"k"}), sources : {<<>>},
     raw_info : {EmptyDict}, created_at : {"t0"}]

\* the dictionary to_dict builds for one facette: Facette.sources is not in it
facette_to_dict(f) ==
    [name |-> f.name, description |-> f.description, color |-> f.color,
     symbol |-> f.symbol, keywords |-> f.keywords]

\* the dictionary to_dict builds for one social profile
social_to_dict(sp) ==
    [platform |-> sp.platform, url |-> sp.url, username |-> sp.username]

\* PersonProfile.to_dict; save() writes json.dumps of it
PersonProfile_to_dict(p) ==
    [name |-> p.name, aliases |-> p.aliases, professions |-> p.professions,
     bio |-> p.bio, location |-> p.location,
     social_profiles |->
         [i \in 1..Len(p.social_profiles) |-> social_to_dict(p.social_profiles[i])],
     facettes |-> [i \in 1..Len(p.facettes) |-> facette_to_dict(p.facettes[i])],
     keywords |-> p.keywords, sources |-> p.sources, created_at |-> p.created_at]

\* datetime.now().isoformat() at the time of a load
now == "t1"

\* the keys load() keeps out of raw_info
KnownKeys ==
    {"name", "aliases", "professions", "occupations", "bio", "biography",
     "location", "social_profiles", "facettes", "keywords", "sources",
     "created_at", "personality_traits"}

\* Facette(...) as load() rebuilds it from a dictionary
load_facette(f) ==
    [name |-> get(f, "name", ""), description |-> get(f, "description", ""),
     color |-> get(f, "color", NoneStr),
     symbol |-> get(f, "symbol", get(f, "element", NoneStr)),
     keywords |-> get(f, "keywords", <<>>), sources |-> <<>>]

\* SocialProfile(...) as load() rebuilds it from a dictionary
load_social(sp) ==
    [platform |-> get(sp, "platform", "unknown"), url |-> get(sp, "url", ""),
     username |-> get(sp, "username", get(sp, "handle", NoneStr)),
     verified |-> FALSE]

\* a load() that knows the primary field names only
PersonProfile_load_primary(data) ==
    LET sps == get(data, "social_profiles", <<>>)
        fs  == get(data, "facettes", <<>>)
    IN  [name |-> data["name"],
         aliases |-> get(data, "aliases", <<>>),
         professions |-> get(data, "professions", <<>>),
         bio |-> get(data, "bio", NoneStr),
         location |-> get(data, "location", NoneStr),
         social_profiles |-> [i \in 1..Len(sps) |-> load_social(sps[i])],
         facettes |-> [i \in 1..Len(fs) |-> load_facette(fs[i])],
         keywords |-> get(data, "keywords", <<>>),
         sources |-> get(data, "sources", <<>>),
         raw_info |-> [k \in DOMAIN data \ KnownKeys |-> data[k]],
         created_at |-> get(data, "created_at", now)]

\* PersonProfile.load, after json.load has returned data
PersonProfile_load(data) ==
    LET sps == get(data, "social_profiles", <<>>)
        fs  == get(data, "facettes", <<>>)
    IN  [name |-> data["name"],
         aliases |-> get(data, "aliases", <<>>),
         professions |-> get(data, "professions", get(data, "occupations", <<>>)),
         bio |-> get(data, "bio", get(data, "biography", NoneStr)),
         location |-> get(data, "location", NoneStr),
         social_profiles |-> [i \in 1..Len(sps) |-> load_social(sps[i])],
         facettes |-> [i \in 1..Len(fs) |-> load_facette(fs[i])],
         keywords |-> get(data, "keywords", get(data, "personality_traits", <<>>)),
         sources |-> get(data, "sources", <<>>),
         raw_info |-> [k \in DOMAIN data \ KnownKeys |-> data[k]],
         created_at |-> get(data, "created_at", now)]

(***************************************************************************)
(* The state.                                                              *)
(***************************************************************************)
VARIABLES
    config,             \* PipelineConfig: subject_name, audio_url, audio_file
    audio_file_exists,  \* whether config.audio_file names an existing file
    dirs,               \* the directories that exist, relative to the subject directory
    disk,               \* the files of the subject directory
    result,             \* HumanPipeline.result, the PipelineResult
    pc,                 \* where the orchestrator stands
    mode,               \* "run": inside run(); "direct": a phase method called directly
    skip_research,      \* the argument of the current run()
    profile,            \* the phase's local PersonProfile
    audio_path,         \* run_audio's local audio_path
    calls,              \* run() and direct phase calls made so far
    attempted,          \* history: the phases the current call has entered, in order
    failed,             \* history: the phase of the current call that raised, or "none"
    raised,             \* history: str(e) of the exception that phase raised
    written,            \* history: the files the current call has opened for writing
    run_returned,       \* history: whether a run() has returned
    snapshot,           \* history: the result as it was when run() last returned
    names,              \* two subject names whose directories are compared
    subject_dirs,       \* the values get_subject_dir returned for each of them
    person,             \* a PersonProfile object in memory
    path_doc,           \* the JSON file that save() writes and load() reads
    loaded,             \* the PersonProfile that load() returned
    origin,             \* history: "save" or "hand", who wrote path_doc
    engine,             \* AvatarEngine: persona, enable_voice, speaker_wav, voice_cloner
    history,            \* AvatarEngine.history
    response_counter,   \* AvatarEngine.response_counter
    conv_file,          \* the file save_conversation writes and load_conversation reads
    audio_files,        \* the numbers n of the response_n.wav files in output_dir
    apc,                \* where the caller of the engine stands
    stream,             \* the open chat_stream generator: message, full_response
    ops,                \* calls made on the engine so far
    pre,                \* history: the engine and the files before the last call
    last,               \* history: the last call and how it ended
    base_history,       \* history: self.history after the last reset or load
    turn_log,           \* history: the turns that returned since then
    voice_log,          \* history: the counter of each voice synthesis attempted since then
    exit_code,          \* the exit status of the create command, once it has exited
    other,              \* a second pipeline in another process, while it is not stepping
    current,            \* which of the two pipelines the pipeline variables describe
    global_engine,      \* ears/engine.py: the module global _engine, an instance number
    instances,          \* the TranscriptionEngine objects made so far: _model and its loads
    threads,            \* each caller of get_engine: its position and its local engine
    engine_log,         \* history: what get_engine returned, the models used, overlapping calls
    request,            \* ears/server.py: the request being handled
    handler,            \* the handler's position, the status it is about to send, engine use
    temp_files,         \* the temporary files of that request: input and output
    response,           \* the status code sent for that request
    served              \* requests received so far

vars == <<config, audio_file_exists, dirs, disk, result, pc, mode, skip_research,
          profile, audio_path, calls, attempted, failed, raised, written,
          run_returned, snapshot, names, subject_dirs,
          person, path_doc, loaded, origin,
          engine, history, response_counter, conv_file, audio_files, apc, stream,
          ops, pre, last, base_history, turn_log, voice_log, exit_code, other,
          current, global_engine, instances, threads, engine_log, request, handler,
          temp_files, response, served>>

hist == <<attempted, failed, raised, written>>

dir_vars == <<names, subject_dirs>>

profile_vars == <<person, path_doc, loaded, origin>>

avatar_vars == <<engine, history, response_counter, conv_file, audio_files, apc,
                 stream, ops, pre, last, base_history, turn_log, voice_log>>

\* the process's exit status and the second pipeline
more_vars == <<exit_code, other, current>>

\* the transcription engine and the HTTP handlers of addons/ears
ears_vars == <<global_engine, instances, threads, engine_log, request, handler,
               temp_files, response, served>>

\* the state that belongs to no pipeline
outside == <<dir_vars, profile_vars, avatar_vars, more_vars, ears_vars>>

NoProfile == [name |-> <<>>, facettes |-> FALSE]

NoResult ==
    [success |-> FALSE, subject_name |-> <<>>, subject_dir |-> NoPath,
     profile_path |-> NoPath, persona_path |-> NoPath, vocals_path |-> NoPath,
     error |-> NoneStr, steps_completed |-> <<>>]

\* truthiness of an Optional[str]: None and "" are both false ("" stands for both)
Truthy(s) == s # ""

subject_dir == get_subject_dir(config.subject_name)

(***************************************************************************)
(* Initial states: a configuration, and a subject directory that is new,   *)
(* holds a hand-written profile, or holds what an earlier run left.        *)
(***************************************************************************)
OldNames == {<<"J">>, <<"j", " ">>}

EmptyDisk == [f \in Files |-> Absent]

HandEdited(doc) == [EmptyDisk EXCEPT ![F_profile] = doc]

EarlierRun(n) ==
    [f \in Files |->
        CASE f = F_profile -> to_dict(extract_profile(search(n)))
          [] f = F_docs    -> markdown(n)
          [] f = F_persona -> generate(extract_profile(search(n)))
          [] f = F_prompt  -> system_prompt(generate(extract_profile(search(n))))
          [] OTHER         -> Absent]

DiskBefore ==
    {[dirs |-> {}, files |-> EmptyDisk]}
    \cup {[dirs |-> AllDirs, files |-> HandEdited(Garbage)]}
    \cup {[dirs |-> AllDirs,
           files |-> HandEdited([kind |-> "profile", name |-> n, facettes |-> f])] :
             n \in OldNames, f \in BOOLEAN}
    \cup {[dirs |-> AllDirs, files |-> EarlierRun(n)] : n \in OldNames}

Configs == [subject_name : Names, audio_url : {"", "url"}, audio_file : {"", "file"}]

NoNames == << <<>>, <<>> >>

NoDirs == << {}, {} >>

NoPerson ==
    [name |-> "", aliases |-> <<>>, professions |-> <<>>, bio |-> NoneStr,
     location |-> NoneStr, social_profiles |-> <<>>, facettes |-> <<>>,
     keywords |-> <<>>, sources |-> <<>>, raw_info |-> EmptyDict,
     created_at |-> ""]

\* no PersonProfile is saved or loaded outside the pipeline
ProfileIdle ==
    /\ person = NoPerson
    /\ path_doc = Absent
    /\ loaded = NoPerson
    /\ origin = "none"

NoEngine == [persona |-> "", enable_voice |-> FALSE, speaker_wav |-> "",
             voice_cloner |-> FALSE]

NoStream == [message |-> <<>>, full_response |-> <<>>]

NoCall == [op |-> "none", outcome |-> "none"]

NoPre == [history |-> <<>>, response_counter |-> 0, engine |-> NoEngine,
          conv_file |-> Absent, audio_files |-> {}]

\* the process has not exited
NoExit == -1

\* there is no second pipeline
NoOther == [pc |-> "none"]

\* _engine = None, and self._model = None
NoInstance == 0

NoModel == 0

\* no status code has been sent
NoStatus == 0

\* the callers of get_engine
Threads == {1, 2}

NoThread == [pc |-> "idle", engine |-> NoInstance, calls |-> 0]

NoEngineLog == [got |-> {}, used |-> {}, overlapped |-> FALSE]

NoRequest == [handler |-> "none", suffix |-> "", output_format |-> "markdown"]

NoHandler == [pc |-> "idle", pending |-> NoStatus, engine_called |-> FALSE]

NoTemp == [input |-> "none", output |-> "none", suffix |-> ""]

\* the module is imported, nothing has called get_engine, no request has come
EarsIdle ==
    /\ global_engine = NoInstance
    /\ instances = <<>>
    /\ threads = [t \in Threads |-> NoThread]
    /\ engine_log = NoEngineLog
    /\ request = NoRequest
    /\ handler = NoHandler
    /\ temp_files = NoTemp
    /\ response = NoStatus
    /\ served = 0

\* no AvatarEngine exists, no exit status, no second pipeline
AvatarIdle ==
    /\ exit_code = NoExit
    /\ other = NoOther
    /\ current = 1
    /\ engine = NoEngine
    /\ history = <<>>
    /\ response_counter = 0
    /\ conv_file = Absent
    /\ audio_files = {}
    /\ apc = "none"
    /\ stream = NoStream
    /\ ops = 0
    /\ pre = NoPre
    /\ last = NoCall
    /\ base_history = <<>>
    /\ turn_log = <<>>
    /\ voice_log = <<>>

Init ==
    /\ ProfileIdle
    /\ EarsIdle
    /\ AvatarIdle
    /\ config \in Configs
    /\ audio_file_exists \in BOOLEAN
    /\ \E before \in DiskBefore : dirs = before.dirs /\ disk = before.files
    /\ result = NoResult
    /\ pc = "start"
    /\ mode = "run"
    /\ skip_research = FALSE
    /\ profile = NoProfile
    /\ audio_path = NoPath
    /\ calls = 0
    /\ attempted = <<>>
    /\ failed = "none"
    /\ raised = NoneStr
    /\ written = {}
    /\ run_returned = FALSE
    /\ snapshot = NoResult
    /\ names = NoNames
    /\ subject_dirs = NoDirs

(***************************************************************************)
(* HumanPipeline.__init__                                                  *)
(***************************************************************************)
\* the order of the mkdir calls
MkdirOrder == <<".", "research", "audio", "voice", "docs">>

init ==
    /\ pc = "start"
    /\ dirs' = dirs \cup created_dirs
    /\ result' = [NoResult EXCEPT !.subject_name = config.subject_name,
                                  !.subject_dir = subject_dir]
    /\ pc' = "ready"
    /\ UNCHANGED <<config, audio_file_exists, disk, mode, skip_research, profile,
                   audio_path, calls, hist, run_returned, snapshot, outside>>

\* a mkdir raises OSError: the constructor raises and there is no pipeline
init_raises ==
    /\ pc = "start"
    /\ \E k \in 0..4 : dirs' = dirs \cup {MkdirOrder[i] : i \in 1..k}
    /\ pc' = "no_pipeline"
    /\ UNCHANGED <<config, audio_file_exists, disk, result, mode, skip_research,
                   profile, audio_path, calls, hist, run_returned, snapshot, outside>>

Constructed == pc \notin {"start", "no_pipeline"}

(***************************************************************************)
(* HumanPipeline.run: the control flow between the phases.                 *)
(***************************************************************************)
\* the test before phase 2
audio_configured == Truthy(config.audio_url) \/ Truthy(config.audio_file)

\* where run() goes when phase 1 is over or skipped
after_research == IF audio_configured THEN "audio_acquire" ELSE "doc_load"

\* run() going on to the next phase whatever the phase returned
run_next_ignoring(ph, ok) ==
    CASE ph = "research"      -> after_research
      [] ph = "audio"         -> "doc_load"
      [] ph = "documentation" -> "persona_load"
      [] ph = "persona"       -> "run_success"

\* run() returning after phase 4 without setting success
run_next_nosuccess(ph, ok) ==
    IF ~ok THEN "returned"
    ELSE CASE ph = "research"      -> after_research
           [] ph = "audio"         -> "doc_load"
           [] ph = "documentation" -> "persona_load"
           [] ph = "persona"       -> "returned"

\* run() with phases 2 and 3 exchanged
run_next_swapped(ph, ok) ==
    IF ~ok THEN "returned"
    ELSE CASE ph = "research"      -> "doc_load"
           [] ph = "documentation" ->
                IF audio_configured THEN "audio_acquire" ELSE "persona_load"
           [] ph = "audio"         -> "persona_load"
           [] ph = "persona"       -> "run_success"

\* where run() goes when phase ph has returned ok
run_next(ph, ok) ==
    IF ~ok THEN "returned"
    ELSE CASE ph = "research"      -> after_research
           [] ph = "audio"         -> "doc_load"
           [] ph = "documentation" -> "persona_load"
           [] ph = "persona"       -> "run_success"

\* an except handler that drops the message
except_handler_silent(res, msg) == res

\* except Exception as e: self.result.error = str(e)
except_handler(res, msg) == [res EXCEPT !.error = Str(msg)]

\* the phase a position of the orchestrator starts, or "none"
PhaseStarting(p) ==
    CASE p = "research_search" -> "research"
      [] p = "audio_acquire"   -> "audio"
      [] p = "doc_load"        -> "documentation"
      [] p = "persona_load"    -> "persona"
      [] OTHER                 -> "none"

Enter(p) ==
    attempted' = IF PhaseStarting(p) = "none" THEN attempted
                 ELSE Append(attempted, PhaseStarting(p))

\* where the orchestrator stands between calls
Idle == IF run_returned THEN "returned" ELSE "ready"

\* a phase method returns ok with the result res, to run() or to a direct caller
Return(ph, ok, res) ==
    LET next == IF mode = "run" THEN run_next(ph, ok) ELSE Idle
    IN  /\ pc' = next
        /\ result' = res
        /\ Enter(next)
        /\ run_returned' = (run_returned \/ (mode = "run" /\ next = "returned"))
        /\ snapshot' = IF mode = "run" /\ next = "returned" THEN res ELSE snapshot

\* a phase's except handler: the error is recorded and the phase returns False
Raise(ph, msg) ==
    /\ failed' = ph
    /\ raised' = Str(msg)
    /\ Return(ph, FALSE, except_handler(result, msg))

\* a step inside a phase: nothing of the result or the history changes
Step(next) ==
    /\ pc' = next
    /\ UNCHANGED <<result, attempted, failed, raised, run_returned, snapshot>>

\* the phase returns True
Ok(ph, res) ==
    /\ Return(ph, TRUE, res)
    /\ UNCHANGED <<failed, raised>>

\* what no step of a phase changes
Frame == UNCHANGED <<config, audio_file_exists, dirs, mode, skip_research, calls, outside>>

\* a write that never reaches the file
save_nothing(d, f, doc) == d

\* PersonProfile.save / PersonaPrompt.save: open(path, "w") and dump the document
save(d, f, doc) == [d EXCEPT ![f] = doc]

\* Path.write_text and the generators' output files
write_text(d, f, text) == [d EXCEPT ![f] = text]

\* yt-dlp's output file and the separator's sf.write of the vocals
write_audio(d, f) == [d EXCEPT ![f] = Audio]

\* a failing write that removes the file it had opened
FailedWrite_removing(f, opened) ==
    /\ disk' = IF opened THEN [disk EXCEPT ![f] = Absent] ELSE disk
    /\ written' = IF opened THEN written \cup {f} ELSE written

\* a write that raises: before open() nothing changes, after it the file is empty
FailedWrite(f, opened) ==
    /\ disk' = IF opened THEN [disk EXCEPT ![f] = Empty] ELSE disk
    /\ written' = IF opened THEN written \cup {f} ELSE written

Wrote(f) == written' = written \cup {f}

\* a profile path that is never filled in
profile_json_unset == NoPath

profile_json == PathBelow(subject_dir, << <<"research">>, <<"profile.json">> >>)

persona_json == PathBelow(subject_dir, << <<"persona.json">> >>)

source_wav == PathBelow(subject_dir, << <<"audio">>, <<"source.wav">> >>)

vocals_wav == PathBelow(subject_dir, << <<"audio">>, <<"separated_vocals.wav">> >>)

\* Path(self.config.audio_file)
local_audio == [anchor |-> "", parts |-> << <<"file">> >>]

(***************************************************************************)
(* HumanPipeline.run, up to the first phase.                               *)
(***************************************************************************)
run_body(skip) ==
    LET next == IF skip THEN after_research ELSE "research_search"
    IN  /\ mode' = "run"
        /\ skip_research' = skip
        /\ calls' = calls + 1
        /\ pc' = next
        /\ result' = IF skip THEN [result EXCEPT !.profile_path = profile_json]
                     ELSE result
        /\ attempted' = <<PhaseStarting(next)>>
        /\ failed' = "none"
        /\ raised' = NoneStr
        /\ written' = {}
        /\ UNCHANGED <<config, audio_file_exists, dirs, disk, profile, audio_path,
                       run_returned, snapshot, outside>>

\* the run() that create_human makes on the pipeline it has just constructed
run ==
    /\ pc = "ready"
    /\ calls = 0
    /\ \E skip \in BOOLEAN : run_body(skip)

\* self.result.success = True; return self.result
run_success ==
    /\ pc = "run_success"
    /\ pc' = "returned"
    /\ result' = [result EXCEPT !.success = TRUE]
    /\ run_returned' = TRUE
    /\ snapshot' = result'
    /\ UNCHANGED <<disk, profile, audio_path, hist>>
    /\ Frame

(***************************************************************************)
(* HumanPipeline.run_research                                              *)
(***************************************************************************)
\* PersonSearcher(...).search(...) and InfoExtractor().extract_profile(results)
run_research_search ==
    /\ pc = "research_search"
    /\ \/ /\ profile' = extract_profile(search(config.subject_name))
          /\ Step("research_save")
          /\ UNCHANGED written
       \/ /\ \E msg \in ExcMsgs : Raise("research", msg)
          /\ UNCHANGED <<profile, written>>
    /\ UNCHANGED <<disk, audio_path>>
    /\ Frame

\* profile.save(...), then the result is updated
run_research_save ==
    /\ pc = "research_save"
    /\ \/ /\ disk' = save(disk, F_profile, to_dict(profile))
          /\ Wrote(F_profile)
          /\ Ok("research",
                [result EXCEPT !.profile_path = profile_json,
                               !.steps_completed = Append(@, "research")])
       \/ /\ \E opened \in BOOLEAN : FailedWrite(F_profile, opened)
          /\ \E msg \in ExcMsgs : Raise("research", msg)
    /\ UNCHANGED <<profile, audio_path>>
    /\ Frame

(***************************************************************************)
(* HumanPipeline.run_audio                                                 *)
(***************************************************************************)
\* what the downloader or the separator reports in result.error
ToolErrors == {"None", "exit 1"}

\* a run_audio that looks at the local file before the URL
audio_source_file_first(cfg) ==
    IF Truthy(cfg.audio_file) THEN "file"
    ELSE IF Truthy(cfg.audio_url) THEN "url" ELSE "none"

\* if self.config.audio_url: ... elif self.config.audio_file: ...
audio_source(cfg) ==
    IF Truthy(cfg.audio_url) THEN "url"
    ELSE IF Truthy(cfg.audio_file) THEN "file" ELSE "none"

\* the audio source: the URL if there is one, else the local file, else nothing
run_audio_acquire ==
    /\ pc = "audio_acquire"
    /\ \/ /\ audio_source(config) = "url"
          /\ disk' = write_audio(disk, F_source)
          /\ Wrote(F_source)
          /\ audio_path' = source_wav
          /\ Step("audio_separate")
       \/ /\ audio_source(config) = "url"
          /\ \/ \E msg \in ExcMsgs : Raise("audio", msg)
             \/ \E err \in ToolErrors : Raise("audio", "Download failed: " \o err)
          /\ UNCHANGED <<disk, written, audio_path>>
       \/ /\ audio_source(config) = "file"
          /\ audio_file_exists
          /\ audio_path' = local_audio
          /\ Step("audio_separate")
          /\ UNCHANGED <<disk, written>>
       \/ /\ audio_source(config) = "file"
          /\ ~audio_file_exists
          /\ Raise("audio", "Audio file not found: file")
          /\ UNCHANGED <<disk, written, audio_path>>
       \/ /\ audio_source(config) = "none"
          /\ Ok("audio", result)
          /\ UNCHANGED <<disk, written, audio_path>>
    /\ UNCHANGED profile
    /\ Frame

\* VocalSeparator(...).separate(...), then the result is updated
run_audio_separate ==
    /\ pc = "audio_separate"
    /\ \/ /\ disk' = write_audio(disk, F_vocals)
          /\ Wrote(F_vocals)
          /\ Ok("audio",
                [result EXCEPT !.vocals_path = vocals_wav,
                               !.steps_completed = Append(@, "audio")])
       \/ /\ \E opened \in BOOLEAN : FailedWrite(F_vocals, opened)
          /\ \/ \E msg \in ExcMsgs : Raise("audio", msg)
             \/ \E err \in ToolErrors : Raise("audio", "Separation failed: " \o err)
    /\ UNCHANGED <<profile, audio_path>>
    /\ Frame

(***************************************************************************)
(* HumanPipeline.run_documentation and run_persona                         *)
(***************************************************************************)
\* an existence test that always answers yes
profile_exists_always(d) == TRUE

\* profile_path.exists()
profile_exists(d) == d[F_profile] # Absent

\* str(e) of what PersonProfile.load raises on the document
LoadErrors(doc) ==
    CASE doc = Absent -> {"[Errno 2] No such file or directory"}
      [] doc = Empty  -> {"Expecting value: line 1 column 1 (char 0)"}
      [] Loadable(doc) -> ExcMsgs
      [] OTHER        -> {"'name'"}

\* the part both phases share: skip without a profile, else load it
LoadProfile(ph, next) ==
    \/ /\ ~profile_exists(disk)
       /\ Ok(ph, result)
       /\ UNCHANGED profile
    \/ /\ profile_exists(disk)
       /\ Loadable(disk[F_profile])
       /\ profile' = load(disk[F_profile])
       /\ Step(next)
    \/ /\ profile_exists(disk)
       /\ \E msg \in LoadErrors(disk[F_profile]) : Raise(ph, msg)
       /\ UNCHANGED profile

run_documentation_load ==
    /\ pc = "doc_load"
    /\ LoadProfile("documentation", "doc_generate")
    /\ UNCHANGED <<disk, written, audio_path>>
    /\ Frame

documented == [result EXCEPT !.steps_completed = Append(@, "documentation")]

\* DocumentGenerator().generate_profile(profile, docs/profile.md)
run_documentation_generate ==
    /\ pc = "doc_generate"
    /\ \/ /\ disk' = write_text(disk, F_docs, markdown(profile.name))
          /\ Wrote(F_docs)
          /\ profile.facettes
          /\ Step("doc_facettes")
       \/ /\ disk' = write_text(disk, F_docs, markdown(profile.name))
          /\ Wrote(F_docs)
          /\ ~profile.facettes
          /\ Ok("documentation", documented)
       \/ /\ \E opened \in BOOLEAN : FailedWrite(F_docs, opened)
          /\ \E msg \in ExcMsgs : Raise("documentation", msg)
    /\ UNCHANGED <<profile, audio_path>>
    /\ Frame

\* generate_facettes(profile.name, profile.facettes, docs/facettes.md)
run_documentation_facettes ==
    /\ pc = "doc_facettes"
    /\ \/ /\ disk' = write_text(disk, F_facettes, markdown(profile.name))
          /\ Wrote(F_facettes)
          /\ Ok("documentation", documented)
       \/ /\ \E opened \in BOOLEAN : FailedWrite(F_facettes, opened)
          /\ \E msg \in ExcMsgs : Raise("documentation", msg)
    /\ UNCHANGED <<profile, audio_path>>
    /\ Frame

run_persona_load ==
    /\ pc = "persona_load"
    /\ LoadProfile("persona", "persona_save")
    /\ UNCHANGED <<disk, written, audio_path>>
    /\ Frame

\* persona = PromptGenerator().generate(profile); persona.save(persona.json)
run_persona_save ==
    /\ pc = "persona_save"
    /\ \/ /\ disk' = save(disk, F_persona, generate(profile))
          /\ Wrote(F_persona)
          /\ Step("persona_prompt")
       \/ /\ \E opened \in BOOLEAN : FailedWrite(F_persona, opened)
          /\ \E msg \in ExcMsgs : Raise("persona", msg)
    /\ UNCHANGED <<profile, audio_path>>
    /\ Frame

\* prompt_path.write_text(persona.system_prompt), then the result is updated
run_persona_prompt ==
    /\ pc = "persona_prompt"
    /\ \/ /\ disk' = write_text(disk, F_prompt, system_prompt(generate(profile)))
          /\ Wrote(F_prompt)
          /\ Ok("persona",
                [result EXCEPT !.persona_path = persona_json,
                               !.steps_completed = Append(@, "persona")])
       \/ /\ \E opened \in BOOLEAN : FailedWrite(F_prompt, opened)
          /\ \E msg \in ExcMsgs : Raise("persona", msg)
    /\ UNCHANGED <<profile, audio_path>>
    /\ Frame

(***************************************************************************)
(* The pipeline as create_human drives it: construct, then run() once.     *)
(***************************************************************************)
Phases ==
    \/ run_research_search
    \/ run_research_save
    \/ run_audio_acquire
    \/ run_audio_separate
    \/ run_documentation_load
    \/ run_documentation_generate
    \/ run_documentation_facettes
    \/ run_persona_load
    \/ run_persona_save
    \/ run_persona_prompt
    \/ run_success

Next ==
    \/ init
    \/ init_raises
    \/ run
    \/ Phases

Spec == Init /\ [][Next]_vars

(***************************************************************************)
(* A pipeline object used again: a second run(), or a phase method called  *)
(* directly, on the same instance.                                         *)
(***************************************************************************)
MaxCalls == 2

run_again ==
    /\ pc \in {"ready", "returned"}
    /\ 0 < calls /\ calls < MaxCalls
    /\ \E skip \in BOOLEAN : run_body(skip)

FirstStep(ph) ==
    CASE ph = "research"      -> "research_search"
      [] ph = "audio"         -> "audio_acquire"
      [] ph = "documentation" -> "doc_load"
      [] ph = "persona"       -> "persona_load"

\* pipeline.run_research(), run_audio(), run_documentation() or run_persona()
direct_call ==
    /\ pc \in {"ready", "returned"}
    /\ calls < MaxCalls
    /\ \E ph \in {"research", "audio", "documentation", "persona"} :
          /\ pc' = FirstStep(ph)
          /\ attempted' = <<ph>>
    /\ mode' = "direct"
    /\ calls' = calls + 1
    /\ failed' = "none"
    /\ raised' = NoneStr
    /\ written' = {}
    /\ UNCHANGED <<config, audio_file_exists, dirs, disk, result, skip_research,
                   profile, audio_path, run_returned, snapshot, outside>>

NextReuse ==
    \/ Next
    \/ run_again
    \/ direct_call

\* reuse does not depend on the subject's name: one name is enough
InitReuse == Init /\ config.subject_name = <<"J", " ">>

SpecReuse == InitReuse /\ [][NextReuse]_vars

(***************************************************************************)
(* get_subject_dir on its own: two configurations, each asked for its      *)
(* directory any number of times.                                          *)
(***************************************************************************)
InitDir ==
    /\ ProfileIdle
    /\ EarsIdle
    /\ AvatarIdle
    /\ config = [subject_name |-> <<>>, audio_url |-> "", audio_file |-> ""]
    /\ audio_file_exists = FALSE
    /\ dirs = {}
    /\ disk = EmptyDisk
    /\ result = NoResult
    /\ pc = "configs"
    /\ mode = "run"
    /\ skip_research = FALSE
    /\ profile = NoProfile
    /\ audio_path = NoPath
    /\ calls = 0
    /\ attempted = <<>>
    /\ failed = "none"
    /\ raised = NoneStr
    /\ written = {}
    /\ run_returned = FALSE
    /\ snapshot = NoResult
    /\ names \in Names \X Names
    /\ subject_dirs = NoDirs

\* PipelineConfig(subject_name=names[i]).get_subject_dir()
call_get_subject_dir ==
    /\ pc = "configs"
    /\ \E i \in 1..2 :
          subject_dirs' =
              [subject_dirs EXCEPT ![i] = @ \cup {get_subject_dir(names[i])}]
    /\ UNCHANGED <<config, audio_file_exists, dirs, disk, result, pc, mode,
                   skip_research, profile, audio_path, calls, hist, run_returned,
                   snapshot, names, profile_vars, avatar_vars, more_vars, ears_vars>>

NextDir == call_get_subject_dir

SpecDir == InitDir /\ [][NextDir]_vars

(***************************************************************************)
(* PersonProfile.save and PersonProfile.load on one path: a profile is     *)
(* saved, or the file is written by hand, and then it is loaded.           *)
(***************************************************************************)
\* the state of a pipeline, but for pc
pipeline_vars == <<config, audio_file_exists, dirs, disk, result, mode,
                   skip_research, profile, audio_path, calls, hist, run_returned,
                   snapshot>>

\* no pipeline exists
PipelineIdle ==
    /\ config = [subject_name |-> <<>>, audio_url |-> "", audio_file |-> ""]
    /\ audio_file_exists = FALSE
    /\ dirs = {}
    /\ disk = EmptyDisk
    /\ result = NoResult
    /\ mode = "run"
    /\ skip_research = FALSE
    /\ profile = NoProfile
    /\ audio_path = NoPath
    /\ calls = 0
    /\ attempted = <<>>
    /\ failed = "none"
    /\ raised = NoneStr
    /\ written = {}
    /\ run_returned = FALSE
    /\ snapshot = NoResult

\* what a hand-written profile document can carry under each key
HandValues ==
    [name : {"J"}, professions : {<<"actor">>}, occupations : {<<"singer">>},
     bio : {NoneStr, Str("b")}, biography : {Str("life")}, quotes : {<<"q">>}]

HandKeys == {"name", "professions", "occupations", "bio", "biography", "quotes"}

HandDocs == {[k \in S |-> v[k]] : S \in SUBSET HandKeys, v \in HandValues}

InitProfile ==
    /\ PipelineIdle
    /\ AvatarIdle
    /\ EarsIdle
    /\ pc = "profile_new"
    /\ names = NoNames
    /\ subject_dirs = NoDirs
    /\ person \in PersonProfiles
    /\ path_doc = Absent
    /\ loaded = NoPerson
    /\ origin = "none"

\* profile.save(path): open(path, "w") and write json.dumps(to_dict())
PersonProfile_save ==
    /\ pc = "profile_new"
    /\ \/ /\ path_doc' = PersonProfile_to_dict(person)
          /\ origin' = "save"
          /\ pc' = "profile_saved"
       \/ /\ path_doc' \in {path_doc, Empty}
          /\ origin' = origin
          /\ pc' = "profile_failed"
    /\ UNCHANGED <<person, loaded>>
    /\ UNCHANGED <<pipeline_vars, dir_vars, avatar_vars, more_vars, ears_vars>>

\* somebody writes the JSON file with an editor
hand_edit ==
    /\ pc = "profile_new"
    /\ path_doc' \in HandDocs
    /\ origin' = "hand"
    /\ pc' = "profile_edited"
    /\ UNCHANGED <<person, loaded>>
    /\ UNCHANGED <<pipeline_vars, dir_vars, avatar_vars, more_vars, ears_vars>>

\* PersonProfile.load(path); data["name"] raises KeyError without the key
PersonProfile_load_file ==
    /\ pc \in {"profile_saved", "profile_edited"}
    /\ \/ /\ "name" \in DOMAIN path_doc
          /\ loaded' = PersonProfile_load(path_doc)
          /\ pc' = "profile_loaded"
       \/ /\ "name" \notin DOMAIN path_doc
          /\ loaded' = loaded
          /\ pc' = "profile_failed"
    /\ UNCHANGED <<person, path_doc, origin>>
    /\ UNCHANGED <<pipeline_vars, dir_vars, avatar_vars, more_vars, ears_vars>>

NextProfile ==
    \/ PersonProfile_save
    \/ hand_edit
    \/ PersonProfile_load_file

SpecProfile == InitProfile /\ [][NextProfile]_vars

(***************************************************************************)
(* avatar/avatar.py: AvatarEngine.  A message content is a sequence of     *)
(* one-character strings.  The caller of a stream calls nothing else on    *)
(* the engine until it has exhausted or closed the generator.              *)
(***************************************************************************)
MaxOps == 3

MaxTextLen == 2

\* the characters str.strip() removes
StripChars == {" ", "\n", "\t"}

RECURSIVE lstrip(_)
lstrip(s) == IF s # <<>> /\ Head(s) \in StripChars THEN lstrip(Tail(s)) ELSE s

RECURSIVE rstrip(_)
rstrip(s) ==
    IF s # <<>> /\ s[Len(s)] \in StripChars
    THEN rstrip(SubSeq(s, 1, Len(s) - 1)) ELSE s

strip(s) == rstrip(lstrip(s))

\* what the user says
Messages == {<<"h">>}

\* one streamed token of the model
Fragments == {<<" ">>, <<"a">>}

\* response["choices"][0]["text"] of a call that is not streamed
RawTexts == UNION {[1..n -> {" ", "a"}] : n \in 0..MaxTextLen}

\* ConversationMessage(role, content)
ConversationMessage(role, content) == [role |-> role, content |-> content]

\* the assistant prefix that ends a prompt: a turn that is opened and not closed
AssistantPrefix == [role |-> "assistant"]

\* a prompt that leaves the history out
build_prompt_without_history(h, user_message) ==
    <<ConversationMessage("system", engine.persona),
      ConversationMessage("user", user_message), AssistantPrefix>>

\* AvatarEngine._build_prompt: the ChatML parts, in order
build_prompt(h, user_message) ==
    <<ConversationMessage("system", engine.persona)>> \o h
        \o <<ConversationMessage("user", user_message), AssistantPrefix>>

\* the two appends of chat() and of chat_stream()
append_turn(h, message, text) ==
    h \o <<ConversationMessage("user", message),
           ConversationMessage("assistant", text)>>

\* a chat_stream that records the user message before it yields anything
history_while_streaming_eager(h, message) ==
    Append(h, ConversationMessage("user", message))

\* self.history while chat_stream is suspended at a yield
history_while_streaming(h, message) == h

\* a reset that forgets all but the first message
reset_history_keeps_first(h) == IF h = <<>> THEN <<>> ELSE <<h[1]>>

\* self.history = []
reset_history(h) == <<>>

\* the dictionary save_conversation dumps
conversation_to_dict(h) ==
    [persona_name |-> engine.persona,
     messages |-> [i \in 1..Len(h) |-> [role |-> h[i].role, content |-> h[i].content]]]

\* a load that appends the file's messages to the current history
load_messages_appending(data, h) ==
    h \o [i \in 1..Len(data.messages) |->
            ConversationMessage(data.messages[i].role, data.messages[i].content)]

\* the list load_conversation assigns to self.history
load_messages(data, h) ==
    [i \in 1..Len(data.messages) |->
        ConversationMessage(data.messages[i].role, data.messages[i].content)]

\* VoiceCloner.SUPPORTED_LANGUAGES, and a code that is not in it
SUPPORTED_LANGUAGES ==
    {"en", "es", "fr", "de", "it", "pt", "pl", "tr", "ru", "nl", "cs", "ar",
     "zh-cn", "ja", "hu", "ko"}

Languages == {"fr", "xx"}

\* how VoiceCloner.clone_voice can end: a CloneResult with success, one
\* without, or an exception from the statements before its try block
clone_voice(language) ==
    IF language \notin SUPPORTED_LANGUAGES THEN {"failure"}
    ELSE {"success", "failure", "raised"}

\* AvatarResponse.audio_path is None
NoAudio == 0

Engines ==
    [persona : {"J"}, enable_voice : BOOLEAN, speaker_wav : {"", "ref.wav"},
     voice_cloner : {FALSE}]

\* conversation files that are there before the engine is made
OldConversations ==
    {Absent, [persona_name |-> "K"],
     [persona_name |-> "K",
      messages |-> <<[role |-> "assistant", content |-> <<"a">>]>>]}

InitAvatar ==
    /\ PipelineIdle
    /\ exit_code = NoExit
    /\ other = NoOther
    /\ current = 1
    /\ ProfileIdle
    /\ EarsIdle
    /\ pc = "avatar"
    /\ names = NoNames
    /\ subject_dirs = NoDirs
    /\ engine \in Engines
    /\ history = <<>>
    /\ response_counter = 0
    /\ conv_file \in OldConversations
    /\ audio_files = {}
    /\ apc = "new"
    /\ stream = NoStream
    /\ ops = 0
    /\ pre = NoPre
    /\ last = NoCall
    /\ base_history = <<>>
    /\ turn_log = <<>>
    /\ voice_log = <<>>

\* what no call on the engine changes
AvatarFrame ==
    UNCHANGED <<pipeline_vars, pc, dir_vars, profile_vars, more_vars, ears_vars>>

Snapshot ==
    [history |-> history, response_counter |-> response_counter, engine |-> engine,
     conv_file |-> conv_file, audio_files |-> audio_files]

\* a call on the engine begins
Begin ==
    /\ ops < MaxOps
    /\ ops' = ops + 1
    /\ pre' = Snapshot

\* AvatarEngine.__init__: the cloner is made only with enable_voice and a sample
AvatarEngine_init ==
    /\ apc = "new"
    /\ \/ /\ engine' = [engine EXCEPT !.voice_cloner =
                           engine.enable_voice /\ Truthy(engine.speaker_wav)]
          /\ apc' = IF pc = "chat_loop" THEN "loop" ELSE "idle"
       \/ /\ engine' = engine
          /\ apc' = "no_engine"
    /\ UNCHANGED <<history, response_counter, conv_file, audio_files, stream, ops,
                   pre, last, base_history, turn_log,
                   voice_log>>
    /\ AvatarFrame

\* whether this call of chat() goes to the voice cloner
Synthesizes(synthesize_voice) ==
    synthesize_voice /\ engine.voice_cloner /\ Truthy(engine.speaker_wav)

\* a counter that is never incremented
same_counter(c) == c

\* self.response_counter += 1
next_counter(c) == c + 1

\* AvatarEngine.chat(message, synthesize_voice, language): what it does to the
\* engine and the files, and how it ends
Chat(message, synthesize_voice, language) ==
    \/ /\ last' = [op |-> "chat", outcome |-> "raised", stage |-> "llm",
                   prompt |-> build_prompt(history, message)]
       /\ UNCHANGED <<history, response_counter, audio_files, turn_log, voice_log>>
    \/ /\ ~Synthesizes(synthesize_voice)
       /\ \E raw \in RawTexts :
             /\ history' = append_turn(history, message, strip(raw))
             /\ turn_log' = Append(turn_log, <<message, strip(raw)>>)
             /\ last' = [op |-> "chat", outcome |-> "returned",
                         synthesize_voice |-> synthesize_voice,
                         cloned |-> "none", message |-> message,
                         prompt |-> build_prompt(history, message),
                         text |-> strip(raw), audio_path |-> NoAudio]
       /\ UNCHANGED <<response_counter, audio_files, voice_log>>
    \/ /\ Synthesizes(synthesize_voice)
       /\ response_counter' = next_counter(response_counter)
       /\ voice_log' = Append(voice_log, next_counter(response_counter))
       /\ \E raw \in RawTexts, cloned \in clone_voice(language) :
             /\ history' = append_turn(history, message, strip(raw))
             /\ audio_files' = IF cloned = "success"
                               THEN audio_files \cup {next_counter(response_counter)}
                               ELSE audio_files
             /\ turn_log' = IF cloned = "raised" THEN turn_log
                            ELSE Append(turn_log, <<message, strip(raw)>>)
             /\ last' = IF cloned = "raised"
                        THEN [op |-> "chat", outcome |-> "raised", stage |-> "voice",
                              prompt |-> build_prompt(history, message)]
                        ELSE [op |-> "chat", outcome |-> "returned",
                              synthesize_voice |-> synthesize_voice,
                              cloned |-> cloned, message |-> message,
                              prompt |-> build_prompt(history, message),
                              text |-> strip(raw),
                              audio_path |-> IF cloned = "success"
                                             THEN next_counter(response_counter) ELSE NoAudio]

chat ==
    /\ apc = "idle"
    /\ Begin
    /\ \E message \in Messages, synthesize_voice \in BOOLEAN, language \in Languages :
          Chat(message, synthesize_voice, language)
    /\ UNCHANGED <<engine, conv_file, apc, stream, base_history>>
    /\ AvatarFrame

\* chat_stream(message) is called and the generator is started
chat_stream ==
    /\ apc = "idle"
    /\ Begin
    /\ \E message \in Messages :
          /\ stream' = [message |-> message, full_response |-> <<>>]
          /\ history' = history_while_streaming(history, message)
          /\ last' = [op |-> "chat_stream", outcome |-> "open",
                      prompt |-> build_prompt(history, message)]
    /\ apc' = "streaming"
    /\ UNCHANGED <<engine, response_counter, conv_file, audio_files, base_history,
                   turn_log,
                   voice_log>>
    /\ AvatarFrame

\* the model gives a token: full_response += token; yield token
chat_stream_yield ==
    /\ apc = "streaming"
    /\ Len(stream.full_response) < MaxTextLen
    /\ \E token \in Fragments :
          stream' = [stream EXCEPT !.full_response = @ \o token]
    /\ history' = history_while_streaming(history, stream.message)
    /\ UNCHANGED <<engine, response_counter, conv_file, audio_files, apc, ops, pre,
                   last, base_history, turn_log,
                   voice_log>>
    /\ AvatarFrame

\* the model has no more tokens: the two appends after the loop
chat_stream_exhausted ==
    /\ apc = "streaming"
    /\ history' = append_turn(history, stream.message, strip(stream.full_response))
    /\ turn_log' = Append(turn_log, <<stream.message, strip(stream.full_response)>>)
    /\ UNCHANGED voice_log
    /\ apc' = "idle"
    /\ last' = [op |-> "chat_stream", outcome |-> "exhausted",
                message |-> stream.message, yielded |-> stream.full_response]
    /\ stream' = NoStream
    /\ UNCHANGED <<engine, response_counter, conv_file, audio_files, ops, pre,
                   base_history>>
    /\ AvatarFrame

\* the caller stops iterating and the generator is closed, or the model raises
\* in the middle of the stream
chat_stream_stopped ==
    /\ apc = "streaming"
    /\ \E how \in {"abandoned", "raised"} :
          last' = [op |-> "chat_stream", outcome |-> how]
    /\ apc' = "idle"
    /\ stream' = NoStream
    /\ UNCHANGED <<engine, history, response_counter, conv_file, audio_files, ops,
                   pre, base_history, turn_log,
                   voice_log>>
    /\ AvatarFrame

reset_conversation ==
    /\ apc = "idle"
    /\ Begin
    /\ history' = reset_history(history)
    /\ response_counter' = 0
    /\ base_history' = reset_history(history)
    /\ turn_log' = <<>>
    /\ voice_log' = <<>>
    /\ last' = [op |-> "reset_conversation", outcome |-> "returned"]
    /\ UNCHANGED <<engine, conv_file, audio_files, apc, stream>>
    /\ AvatarFrame

\* save_conversation(path): open(path, "w") and json.dump
save_conversation ==
    /\ apc = "idle"
    /\ Begin
    /\ \/ /\ conv_file' = conversation_to_dict(history)
          /\ last' = [op |-> "save_conversation", outcome |-> "returned"]
       \/ /\ conv_file' \in {conv_file, Empty}
          /\ last' = [op |-> "save_conversation", outcome |-> "raised"]
    /\ UNCHANGED <<engine, history, response_counter, audio_files, apc, stream,
                   base_history, turn_log,
                   voice_log>>
    /\ AvatarFrame

\* load_conversation(path): json.load, then data["messages"]
load_conversation ==
    /\ apc = "idle"
    /\ Begin
    /\ \/ /\ "messages" \in DOMAIN conv_file
          /\ history' = load_messages(conv_file, history)
          /\ base_history' = load_messages(conv_file, history)
          /\ turn_log' = <<>>
          /\ last' = [op |-> "load_conversation", outcome |-> "returned"]
       \/ /\ "messages" \notin DOMAIN conv_file
          /\ last' = [op |-> "load_conversation", outcome |-> "raised"]
          /\ UNCHANGED <<history, base_history, turn_log>>
    /\ UNCHANGED <<engine, response_counter, conv_file, audio_files, apc, stream,
                   voice_log>>
    /\ AvatarFrame

NextAvatar ==
    \/ AvatarEngine_init
    \/ chat
    \/ chat_stream
    \/ chat_stream_yield
    \/ chat_stream_exhausted
    \/ chat_stream_stopped
    \/ reset_conversation
    \/ save_conversation
    \/ load_conversation

SpecAvatar == InitAvatar /\ [][NextAvatar]_vars

(***************************************************************************)
(* The interactive loop of cmd_chat (pipeline/cli.py) and of run_chat_loop *)
(* (scripts/chat_vincent.py) around one engine.                            *)
(***************************************************************************)
\* cmd_chat passes enable_voice = args.voice and vocals_path is not None
LoopEngines == {e \in Engines : e.enable_voice => Truthy(e.speaker_wav)}

InitLoop ==
    /\ PipelineIdle
    /\ exit_code = NoExit
    /\ other = NoOther
    /\ current = 1
    /\ ProfileIdle
    /\ EarsIdle
    /\ pc = "chat_loop"
    /\ names = NoNames
    /\ subject_dirs = NoDirs
    /\ engine \in LoopEngines
    /\ history = <<>>
    /\ response_counter = 0
    /\ conv_file = Absent
    /\ audio_files = {}
    /\ apc = "new"
    /\ stream = NoStream
    /\ ops = 0
    /\ pre = NoPre
    /\ last = NoCall
    /\ base_history = <<>>
    /\ turn_log = <<>>
    /\ voice_log = <<>>

\* input() gives a line that is not empty, quit or reset: avatar.chat(user_input);
\* an exception of chat() is printed by the except clause and the loop goes on
loop_turn ==
    /\ apc = "loop"
    /\ Begin
    /\ \E user_input \in Messages, synthesize_voice \in {engine.enable_voice, TRUE},
          language \in Languages :
          Chat(user_input, synthesize_voice, language)
    /\ UNCHANGED <<engine, conv_file, apc, stream, base_history>>
    /\ AvatarFrame

\* the line is "reset": avatar.reset_conversation(); continue
loop_reset ==
    /\ apc = "loop"
    /\ Begin
    /\ history' = reset_history(history)
    /\ response_counter' = 0
    /\ base_history' = reset_history(history)
    /\ turn_log' = <<>>
    /\ voice_log' = <<>>
    /\ last' = [op |-> "reset_conversation", outcome |-> "returned"]
    /\ UNCHANGED <<engine, conv_file, audio_files, apc, stream>>
    /\ AvatarFrame

\* the line is "quit" (break), or input() is interrupted from the keyboard
loop_end ==
    /\ apc = "loop"
    /\ \E how \in {"quit", "KeyboardInterrupt"} :
          last' = [op |-> "input", outcome |-> how]
    /\ apc' = "ended"
    /\ UNCHANGED <<engine, history, response_counter, conv_file, audio_files, stream,
                   ops, pre, base_history, turn_log,
                   voice_log>>
    /\ AvatarFrame

NextLoop ==
    \/ AvatarEngine_init
    \/ loop_turn
    \/ loop_reset
    \/ loop_end

SpecLoop == InitLoop /\ [][NextLoop]_vars

(***************************************************************************)
(* The create command: pipeline/cli.py (sys.exit(main())) and the script   *)
(* at the end of orchestrator.py, around create_human.                     *)
(***************************************************************************)
\* a command that reports success whatever the result
cmd_create_zero(res) == 0

\* cmd_create: return 0 if result.success, else 1; main() returns it to sys.exit
cmd_create(res) == IF res.success THEN 0 ELSE 1

\* orchestrator.py as a script: exit(1) if not result.success, else it ends
orchestrator_main(res) == IF res.success THEN 0 ELSE 1

\* what an exit leaves alone
ExitFrame == UNCHANGED <<pipeline_vars, dir_vars, profile_vars, avatar_vars, other,
                         current, ears_vars>>

cli_exit ==
    /\ pc = "returned"
    /\ exit_code' = cmd_create(result)
    /\ pc' = "exited"
    /\ ExitFrame

script_exit ==
    /\ pc = "returned"
    /\ exit_code' = orchestrator_main(result)
    /\ pc' = "exited"
    /\ ExitFrame

\* HumanPipeline(config) raised inside create_human: nothing catches it and the
\* interpreter exits with status 1
uncaught_exit ==
    /\ pc = "no_pipeline"
    /\ exit_code' = 1
    /\ pc' = "exited"
    /\ ExitFrame

NextCli ==
    \/ Next
    \/ cli_exit
    \/ script_exit
    \/ uncaught_exit

SpecCli == Init /\ [][NextCli]_vars

(***************************************************************************)
(* Two pipelines in two processes.  The pipeline variables describe the    *)
(* one that takes the next step; the other one waits in the variable       *)
(* other.  They see the same files exactly if get_subject_dir gives them   *)
(* the same directory; nothing in the code makes one wait for the other.   *)
(***************************************************************************)
\* the pipeline that is described by the pipeline variables, as a record
instance ==
    [config |-> config, result |-> result, pc |-> pc, mode |-> mode,
     skip_research |-> skip_research, profile |-> profile,
     audio_path |-> audio_path, calls |-> calls, attempted |-> attempted,
     failed |-> failed, raised |-> raised, written |-> written,
     run_returned |-> run_returned, snapshot |-> snapshot,
     dirs |-> dirs, disk |-> disk]

\* both pipelines work in one directory
SameDir == get_subject_dir(config.subject_name) = get_subject_dir(other.config.subject_name)

\* pairs of subject names: two with one directory, two with two directories
NamePairs ==
    {<< <<"J", " ">>, <<"j", "_">> >>, << <<"J">>, <<"j", "_">> >>}

InitTwo ==
    /\ ProfileIdle
    /\ EarsIdle
    /\ \E pair \in NamePairs :
          /\ config \in [subject_name : {pair[1]}, audio_url : {"", "url"},
                         audio_file : {""}]
          /\ \/ dirs = {} /\ disk = EmptyDisk
             \/ /\ dirs = AllDirs
                /\ disk = HandEdited([kind |-> "profile", name |-> pair[1],
                                      facettes |-> TRUE])
          /\ other = [config |-> [subject_name |-> pair[2], audio_url |-> "",
                                  audio_file |-> ""],
                      result |-> NoResult, pc |-> "start", mode |-> "run",
                      skip_research |-> FALSE, profile |-> NoProfile,
                      audio_path |-> NoPath, calls |-> 0, attempted |-> <<>>,
                      failed |-> "none", raised |-> NoneStr, written |-> {},
                      run_returned |-> FALSE, snapshot |-> NoResult,
                      dirs |-> {}, disk |-> EmptyDisk]
    /\ current = 1
    /\ exit_code = NoExit
    /\ audio_file_exists = FALSE
    /\ result = NoResult
    /\ pc = "start"
    /\ mode = "run"
    /\ skip_research = FALSE
    /\ profile = NoProfile
    /\ audio_path = NoPath
    /\ calls = 0
    /\ attempted = <<>>
    /\ failed = "none"
    /\ raised = NoneStr
    /\ written = {}
    /\ run_returned = FALSE
    /\ snapshot = NoResult
    /\ names = NoNames
    /\ subject_dirs = NoDirs
    /\ engine = NoEngine
    /\ history = <<>>
    /\ response_counter = 0
    /\ conv_file = Absent
    /\ audio_files = {}
    /\ apc = "none"
    /\ stream = NoStream
    /\ ops = 0
    /\ pre = NoPre
    /\ last = NoCall
    /\ base_history = <<>>
    /\ turn_log = <<>>
    /\ voice_log = <<>>

\* the scheduler lets the other process run: the two pipelines change places,
\* and the files stay where they are if the directory is the same
switch ==
    /\ other' = [instance EXCEPT !.dirs = IF SameDir THEN {} ELSE dirs,
                                 !.disk = IF SameDir THEN EmptyDisk ELSE disk]
    /\ current' = 3 - current
    /\ config' = other.config
    /\ result' = other.result
    /\ pc' = other.pc
    /\ mode' = other.mode
    /\ skip_research' = other.skip_research
    /\ profile' = other.profile
    /\ audio_path' = other.audio_path
    /\ calls' = other.calls
    /\ attempted' = other.attempted
    /\ failed' = other.failed
    /\ raised' = other.raised
    /\ written' = other.written
    /\ run_returned' = other.run_returned
    /\ snapshot' = other.snapshot
    /\ dirs' = IF SameDir THEN dirs ELSE other.dirs
    /\ disk' = IF SameDir THEN disk ELSE other.disk
    /\ UNCHANGED <<audio_file_exists, dir_vars, profile_vars, avatar_vars, exit_code,
                   ears_vars>>

NextTwo ==
    \/ Next
    \/ switch

SpecTwo == InitTwo /\ [][NextTwo]_vars

(***************************************************************************)
(* Properties of one run() on a newly constructed pipeline (Spec).         *)
(***************************************************************************)
Steps == {result.steps_completed[i] : i \in DOMAIN result.steps_completed}

Returned == pc = "returned"

\* no step at or after the failing phase is in steps_completed
NoStepFrom(ph) == \A s \in Steps : PhaseIndex(s) < PhaseIndex(ph)

\* C1 as claimed: when a phase of run() raises, the returned result has
\* success=False, a non-empty error string, and no step at or after the
\* failing phase in steps_completed.
C1_NonEmptyError ==
    (Returned /\ failed # "none") =>
        /\ ~result.success
        /\ ~result.error.is_none /\ result.error.text # ""
        /\ NoStepFrom(failed)

\* C1 amended: when a phase of run() raises, the returned result has
\* success=False, error set to str(e) of that exception (a string, which is
\* empty exactly when the exception carries no message), and no step at or
\* after the failing phase in steps_completed.
C1_ErrorIsStrOfException ==
    (Returned /\ failed # "none") =>
        /\ ~result.success
        /\ ~result.error.is_none /\ result.error = raised
        /\ NoStepFrom(failed)

C1_Witness ==
    /\ Returned /\ failed = "persona"
    /\ Len(result.steps_completed) = 3
    /\ result.error.text = ""

\* C2: with neither audio_url nor audio_file configured, "audio" is never in
\* steps_completed, vocals_path stays unset, and the run returns success=True
\* whenever no phase fails.
C2_NoAudioSource ==
    (Constructed /\ ~audio_configured) =>
        /\ "audio" \notin Steps
        /\ result.vocals_path = NoPath
        /\ (Returned /\ failed = "none" => result.success)

C2_Witness ==
    /\ ~audio_configured /\ Returned /\ result.success
    /\ result.steps_completed = <<"research", "documentation", "persona">>

\* C3: run(skip_research=True) without a profile on disk and without an audio
\* source returns success=True with no error, writes no file, leaves
\* persona_path unset and completes no step.
C3_SkipWithoutProfile ==
    (Returned /\ skip_research /\ ~audio_configured /\ disk[F_profile] = Absent) =>
        /\ result.success
        /\ result.error.is_none
        /\ written = {}
        /\ result.persona_path = NoPath
        /\ result.steps_completed = <<>>

C3_Witness ==
    /\ Returned /\ skip_research /\ ~audio_configured /\ disk[F_profile] = Absent
    /\ attempted = <<"documentation", "persona">>

\* C4: a run without skip_research and without an audio source in which no
\* phase fails completes exactly research, documentation, persona, and
\* persona_path names an existing persona.json whose name is the configured
\* subject_name.
C4_NameReachesPersona ==
    (Returned /\ ~skip_research /\ ~audio_configured /\ failed = "none") =>
        /\ result.steps_completed = <<"research", "documentation", "persona">>
        /\ result.persona_path = persona_json
        /\ disk[F_persona].kind = "persona"
        /\ disk[F_persona].name = config.subject_name

C4_Witness ==
    /\ Returned /\ ~skip_research /\ ~audio_configured /\ failed = "none"
    /\ config.subject_name = <<"J", " ">>
    /\ disk[F_persona].name = <<"J", " ">>

\* strictly increasing in the order research, audio, documentation, persona
InPhaseOrder(seq) ==
    \A i, j \in DOMAIN seq : i < j => PhaseIndex(seq[i]) < PhaseIndex(seq[j])

LaterArtifacts(ph) ==
    UNION {Artifacts(PhaseOrder[i]) : i \in {k \in 1..4 : k > PhaseIndex(ph)}}

\* C6: when a phase fails, run() has returned: the failed phase is the last
\* one entered, it was entered once, and the run has written no artifact of
\* a later phase.
C6_FailureStopsRun ==
    failed # "none" =>
        /\ Returned
        /\ attempted # <<>> /\ attempted[Len(attempted)] = failed
        /\ InPhaseOrder(attempted)
        /\ written \cap LaterArtifacts(failed) = {}

C6_Witness ==
    /\ failed = "audio" /\ Returned
    /\ "research" \in Steps
    /\ disk[F_persona] = Absent /\ disk[F_prompt] = Absent

WrittenAndThere(f) == f \in written /\ disk[f] # Absent

\* C7: a phase named in steps_completed has written its artifact:
\* research/profile.json, docs/profile.md, persona.json and system_prompt.txt,
\* and the vocals file that vocals_path names.
C7_StepImpliesArtifact ==
    /\ "research" \in Steps => WrittenAndThere(F_profile)
    /\ "documentation" \in Steps => WrittenAndThere(F_docs)
    /\ "persona" \in Steps => WrittenAndThere(F_persona) /\ WrittenAndThere(F_prompt)
    /\ "audio" \in Steps => result.vocals_path = vocals_wav /\ WrittenAndThere(F_vocals)

C7_Witness ==
    /\ pc = "run_success"
    /\ result.steps_completed = PhaseOrder

\* C10: once the pipeline is constructed, the subject directory and its
\* subdirectories research, audio, voice and docs exist, in every state.
C10_DirectoriesExist ==
    Constructed => ({"."} \cup SubDirs) \subseteq dirs

C10_Witness ==
    /\ Returned /\ failed = "research"
    /\ SubDirs \subseteq dirs
    /\ disk = EmptyDisk

(***************************************************************************)
(* The result after run() has returned, on a pipeline that is used again   *)
(* (SpecReuse).                                                            *)
(***************************************************************************)
\* C8 as claimed: once run() has returned, the PipelineResult it returned is
\* never mutated again, whatever is called on the pipeline afterwards.
C8_ReturnedResultFrozen ==
    run_returned => result = snapshot

(***************************************************************************)
(* The directory key (SpecDir).                                            *)
(***************************************************************************)
Whitespace == {" ", "\t"}

\* lowercase, every whitespace character replaced by an underscore
WhitespaceKey(n) ==
    [i \in 1..Len(n) |-> IF n[i] \in Whitespace THEN "_" ELSE lower_char(n[i])]

\* lowercase, every space replaced by an underscore
SpaceKey(n) ==
    [i \in 1..Len(n) |-> IF n[i] = " " THEN "_" ELSE lower_char(n[i])]

BothAsked == subject_dirs[1] # {} /\ subject_dirs[2] # {}

OnePathEach == \A i \in 1..2 : Cardinality(subject_dirs[i]) <= 1

\* C9 as claimed: get_subject_dir always returns the same path for a name,
\* and two names equal after lowercasing and replacing whitespace by
\* underscores get the same directory.
C9_WhitespaceCollide ==
    /\ OnePathEach
    /\ (BothAsked /\ WhitespaceKey(names[1]) = WhitespaceKey(names[2])) =>
           subject_dirs[1] = subject_dirs[2]

\* C9 amended: get_subject_dir always returns the same path for a name, and
\* two names equal after lowercasing and replacing each space character by
\* an underscore get the same directory (a tab or other whitespace is kept).
C9_SpacesCollide ==
    /\ OnePathEach
    /\ (BothAsked /\ SpaceKey(names[1]) = SpaceKey(names[2])) =>
           subject_dirs[1] = subject_dirs[2]

C9_Witness ==
    /\ names = << <<"J", " ">>, <<"j", "_">> >>
    /\ BothAsked
    /\ subject_dirs[1] = subject_dirs[2]

(***************************************************************************)
(* PersonProfile.save and PersonProfile.load (SpecProfile).                *)
(***************************************************************************)
\* the fields the round trip is about
RoundTripFields == {"name", "professions", "bio", "location", "keywords", "facettes"}

SavedThenLoaded == pc = "profile_loaded" /\ origin = "save"

\* C11: for any PersonProfile, save() followed by load() of the same file
\* yields a profile with identical name, professions, bio, location, keyword
\* list and facette list.
C11_SaveLoadRoundTrip ==
    SavedThenLoaded => \A k \in RoundTripFields : loaded[k] = person[k]

\* an alias key stands in place of its primary key in the document
InPlace(alias, primary) ==
    /\ pc = "profile_loaded"
    /\ origin = "hand"
    /\ alias \in DOMAIN path_doc
    /\ primary \notin DOMAIN path_doc

\* the document with the alias key renamed to the primary key
Renamed(doc, alias, primary) ==
    [k \in (DOMAIN doc \ {alias}) \cup {primary} |->
        IF k = primary THEN doc[alias] ELSE doc[k]]

AliasLoads(alias, primary) ==
    InPlace(alias, primary) =>
        /\ loaded[primary] = path_doc[alias]
        /\ loaded[primary] = PersonProfile_load(Renamed(path_doc, alias, primary))[primary]

\* C12: a document that carries occupations in place of professions, or
\* biography in place of bio, loads to the same professions / bio value as a
\* document carrying the primary key with that value, and the alias keys are
\* not copied into raw_info.
C12_AliasesTolerated ==
    /\ AliasLoads("occupations", "professions")
    /\ AliasLoads("biography", "bio")
    /\ pc = "profile_loaded" =>
          DOMAIN loaded.raw_info \cap {"occupations", "biography"} = {}

C12_Witness ==
    /\ InPlace("occupations", "professions")
    /\ InPlace("biography", "bio")
    /\ "quotes" \in DOMAIN loaded.raw_info
    /\ loaded.professions = <<"singer">>
    /\ loaded.bio = Str("life")

(***************************************************************************)
(* AvatarEngine (SpecAvatar) and the chat loop around it (SpecLoop).       *)
(***************************************************************************)
\* the messages of a sequence of turns, each turn a pair <<message, reply>>
RECURSIVE TurnMessages(_)
TurnMessages(log) ==
    IF log = <<>> THEN <<>>
    ELSE append_turn(<<>>, Head(log)[1], Head(log)[2]) \o TurnMessages(Tail(log))

ChatReturned == last.op = "chat" /\ last.outcome = "returned"

ChatRaised == last.op = "chat" /\ last.outcome = "raised"

\* C13: after n successful chat() calls since construction or the last reset
\* (or load) the history holds exactly the 2n messages of those turns, the
\* user message followed by the assistant reply, in turn order.
C13_TwoMessagesPerTurn ==
    history = base_history \o TurnMessages(turn_log)

StreamEnded(how) == last.op = "chat_stream" /\ last.outcome = how

\* C14: chat_stream leaves history as it was before the call while the
\* consumer iterates, and for good if the consumer abandons the iteration or
\* the model raises; on exhaustion it appends the user message and then the
\* stripped concatenation of the yielded fragments.
C14_StreamUpdatesAtExhaustion ==
    /\ apc = "streaming" => history = pre.history
    /\ StreamEnded("abandoned") \/ StreamEnded("raised") => history = pre.history
    /\ StreamEnded("exhausted") =>
          history = pre.history \o
                    <<ConversationMessage("user", last.message),
                      ConversationMessage("assistant", strip(last.yielded))>>

C14_Witness ==
    /\ StreamEnded("exhausted")
    /\ last.yielded = <<" ", "a">>
    /\ pre.history # <<>>
    /\ history[Len(history)].content = <<"a">>

WasReset == last.op = "reset_conversation"

\* C15: reset_conversation empties the history, zeroes the response counter
\* and changes nothing else: persona, voice configuration and files stay, and
\* the next prompt holds the system prompt and the new message only.
C15_ResetClearsSessionOnly ==
    WasReset =>
        /\ history = <<>>
        /\ response_counter = 0
        /\ engine = pre.engine
        /\ conv_file = pre.conv_file
        /\ audio_files = pre.audio_files
        /\ \A m \in Messages :
              build_prompt(history, m) =
                  <<ConversationMessage("system", engine.persona),
                    ConversationMessage("user", m), AssistantPrefix>>

C15_Witness ==
    /\ WasReset
    /\ pre.history # <<>>
    /\ pre.response_counter > 0
    /\ audio_files # {}
    /\ "messages" \in DOMAIN conv_file

\* C16: chat() returns an audio path only if voice was enabled with a speaker
\* sample at construction, synthesize_voice is true and the cloner reports
\* success; a failed cloning never comes out of chat() as an exception: the
\* response has the text and no audio path, and the turn is in the history.
C16_VoiceFailureStaysInside ==
    /\ ChatReturned /\ last.audio_path # NoAudio =>
          /\ engine.enable_voice /\ Truthy(engine.speaker_wav)
          /\ last.synthesize_voice
          /\ last.cloned = "success"
    /\ ChatReturned /\ last.cloned = "failure" =>
          /\ last.audio_path = NoAudio
          /\ history = append_turn(pre.history, last.message, last.text)
    /\ ~(ChatRaised /\ last.stage = "voice")

\* C18: in the chat loop, when avatar.chat() raises the loop goes on to the
\* next input and the engine's history is what it was before the failed turn.
C18_FailedTurnLeavesHistory ==
    pc = "chat_loop" /\ ChatRaised => apc = "loop" /\ history = pre.history

CallReturned(op) == last.op = op /\ last.outcome = "returned"

\* C20: save_conversation writes the ordered (role, content) list of the
\* history, and load_conversation makes the history exactly the list in the
\* file, whatever the history was before.
C20_ConversationRoundTrip ==
    /\ CallReturned("save_conversation") =>
          /\ Len(conv_file.messages) = Len(history)
          /\ \A i \in 1..Len(history) :
                /\ conv_file.messages[i].role = history[i].role
                /\ conv_file.messages[i].content = history[i].content
    /\ CallReturned("load_conversation") =>
          /\ Len(history) = Len(conv_file.messages)
          /\ \A i \in 1..Len(history) :
                /\ history[i].role = conv_file.messages[i].role
                /\ history[i].content = conv_file.messages[i].content

C20_Witness ==
    /\ CallReturned("load_conversation")
    /\ conv_file.persona_name = "J"
    /\ pre.history # <<>>
    /\ Len(history) = 2
    /\ history = pre.history

(***************************************************************************)
(* The create command (SpecCli).                                           *)
(***************************************************************************)
Exited == pc = "exited"

\* C17: the create command exits with 0 exactly when the PipelineResult that
\* the orchestrator returned has success = True, and with 1 on any failure
\* of the pipeline.
C17_ExitCodeIsSuccess ==
    Exited =>
        /\ exit_code = 0 <=> result.success
        /\ ~result.success => exit_code = 1

C17_Witness ==
    /\ Exited
    /\ exit_code = 1
    /\ failed = "persona"
    /\ "research" \in Steps

(***************************************************************************)
(* Two pipelines in two processes (SpecTwo).                               *)
(***************************************************************************)
SucceededWithPersona == Returned /\ result.success /\ "persona" \in Steps

\* C19: two pipelines whose subject names normalize to the same key work in
\* the same directory, and then the persona.json of a run that succeeded is
\* derived from the profile of either pipeline, whichever research/profile.json
\* held when the persona phase read it; with two directories it is the run's own.
C19_SharedDirectoryUnguarded ==
    /\ SpaceKey(config.subject_name) = SpaceKey(other.config.subject_name) => SameDir
    /\ SucceededWithPersona =>
          /\ profile.name \in
                IF SameDir THEN {config.subject_name, other.config.subject_name}
                ELSE {config.subject_name}
          /\ F_persona \in written

C19_Witness ==
    /\ SameDir
    /\ SucceededWithPersona
    /\ ~skip_research
    /\ "research" \in Steps
    /\ profile.name = other.config.subject_name
    /\ profile.name # config.subject_name
    /\ disk[F_persona] = generate(profile)

(***************************************************************************)
(* The directory key of a subject.                                         *)
(***************************************************************************)
\* the characters a directory key must not contain
UnsafeChars == {"J", " ", "/"}

\* p is data_dir followed by exactly one component that has no unsafe character
OneSafeComponentBelow(p) ==
    /\ p.anchor = data_dir.anchor
    /\ Len(p.parts) = Len(data_dir.parts) + 1
    /\ SubSeq(p.parts, 1, Len(data_dir.parts)) = data_dir.parts
    /\ LET key == p.parts[Len(p.parts)]
       IN  \A i \in DOMAIN key : key[i] \notin UnsafeChars

\* C22 as claimed: for any subject name, get_subject_dir() is exactly one
\* path component directly below data_dir, and that component has no
\* uppercase letter, no space and no path separator.
C22_FilesystemSafe ==
    \A i \in 1..2 : \A p \in subject_dirs[i] : OneSafeComponentBelow(p)

(***************************************************************************)
(* No rollback.                                                            *)
(***************************************************************************)
\* the step in which a phase of the run fails
PhaseFails == failed = "none" /\ failed' # "none"

\* C23 as claimed: the step in which a phase fails leaves every file that is
\* on disk, written earlier in this run or left by an earlier run, unchanged.
C23_FailureChangesNoFile ==
    [][PhaseFails => \A f \in Files : disk[f] # Absent => disk'[f] = disk[f]]_vars

\* C23 amended: the step in which a phase fails changes at most the file the
\* failing phase had opened for writing, which is left empty: every file this
\* run has written, and every artifact of an earlier run that belongs to
\* another phase, is unchanged, and no file is removed.
C23_FailureTouchesOwnFileOnly ==
    [][PhaseFails =>
          \A f \in Files :
              disk'[f] # disk[f] =>
                  /\ f \in Artifacts(failed')
                  /\ f \notin written
                  /\ disk'[f] = Empty]_vars

\* the persona phase has failed after the documentation was written, the
\* profile of an earlier run is still there and the earlier persona.json
\* was truncated by the failing write
C23_Witness ==
    /\ Returned
    /\ failed = "persona"
    /\ WrittenAndThere(F_docs)
    /\ F_profile \notin written
    /\ Loadable(disk[F_profile])
    /\ disk[F_persona] = Empty
    /\ disk[F_prompt] = system_prompt(generate(profile))

(***************************************************************************)
(* The result of a first run.                                              *)
(***************************************************************************)
\* an Optional field of the result that is not None
ErrorSet == result.error # NoneStr

PathSet(p) == p # NoPath

C26_PathsAgreeWithSteps ==
    /\ PathSet(result.vocals_path) <=> "audio" \in Steps
    /\ PathSet(result.persona_path) <=> "persona" \in Steps
    /\ PathSet(result.profile_path) <=> ("research" \in Steps \/ skip_research)
    /\ skip_research => result.profile_path = profile_json
    /\ "audio" \in Steps => result.vocals_path = vocals_wav
    /\ "persona" \in Steps => result.persona_path = persona_json

\* a run with skip_research over a directory that has no profile
C26_Witness ==
    /\ Returned
    /\ skip_research
    /\ disk[F_profile] = Absent
    /\ PathSet(result.profile_path)
    /\ "audio" \in Steps /\ PathSet(result.vocals_path)
    /\ ~PathSet(result.persona_path)

(***************************************************************************)
(* The audio phase.                                                        *)
(***************************************************************************)
BothConfigured == Truthy(config.audio_url) /\ Truthy(config.audio_file)

DownloadFailed == result.error \in {Str("Download failed: " \o e) : e \in ToolErrors}

SeparationFailed ==
    result.error \in {Str("Separation failed: " \o e) : e \in ToolErrors}

\* C27: with both audio_url and audio_file configured the local file is
\* never the audio source and is never reported missing, and a failed
\* download ends the phase before any separation; a download or separation
\* that reports failure makes the audio phase fail and the run return with
\* the reported error, vocals_path unset and "audio" not completed.
C27_UrlBeforeFile ==
    /\ BothConfigured =>
          /\ audio_path # local_audio
          /\ result.error # Str("Audio file not found: file")
    /\ DownloadFailed => audio_path = NoPath /\ F_vocals \notin written
    /\ (DownloadFailed \/ SeparationFailed) =>
          /\ Returned
          /\ failed = "audio"
          /\ ~result.success
          /\ ~PathSet(result.vocals_path)
          /\ "audio" \notin Steps

\* both are configured, the local file is missing and the download failed
C27_Witness ==
    /\ BothConfigured
    /\ ~audio_file_exists
    /\ DownloadFailed
    /\ Returned

(***************************************************************************)
(* The prompt of a turn.                                                   *)
(***************************************************************************)
RECURSIVE IsSubsequence(_, _)
IsSubsequence(a, b) ==
    IF a = <<>> THEN TRUE
    ELSE IF b = <<>> THEN FALSE
    ELSE IF Head(a) = Head(b) THEN IsSubsequence(Tail(a), Tail(b))
    ELSE IsSubsequence(a, Tail(b))

\* the last call was chat() or chat_stream() and last.prompt is what it gave the model
PromptHanded == last.op \in {"chat", "chat_stream"} /\ "prompt" \in DOMAIN last

\* the turns that had returned when the last call began
EarlierTurns ==
    IF ChatReturned THEN SubSeq(turn_log, 1, Len(turn_log) - 1) ELSE turn_log

\* C24: the prompt chat() or chat_stream() hands to the model is the
\* persona's system prompt, the messages of the history as it was when the
\* call began, in order, the new user message and an open assistant turn;
\* the history is not changed by building it, and the prompt contains the
\* 2n messages of the n turns that had returned before, in order.
C24_PromptHoldsHistory ==
    PromptHanded =>
        /\ \E m \in Messages :
              last.prompt = <<ConversationMessage("system", engine.persona)>>
                                \o pre.history
                                \o <<ConversationMessage("user", m), AssistantPrefix>>
        /\ (last.outcome = "open" \/ (ChatRaised /\ last.stage = "llm")) =>
              history = pre.history
        /\ IsSubsequence(TurnMessages(EarlierTurns), last.prompt)
        /\ Len(last.prompt) >= 2 * Len(EarlierTurns) + 3

\* the third turn in a row: its prompt holds the four messages of two turns
C24_Witness ==
    /\ ChatReturned
    /\ Len(turn_log) = 3
    /\ Len(last.prompt) = 7
    /\ last.prompt[2].role = "user" /\ last.prompt[5].role = "assistant"
    /\ last.prompt[7] = AssistantPrefix

(***************************************************************************)
(* The shape of the history.                                               *)
(***************************************************************************)
\* even length, and the roles user, assistant, user, assistant, ...
Alternating(h) ==
    /\ Len(h) % 2 = 0
    /\ \A i \in DOMAIN h : h[i].role = IF i % 2 = 1 THEN "user" ELSE "assistant"

\* C28: as long as no conversation file has been loaded since construction
\* or the last reset, in every state, a suspended stream included, the
\* history has even length and its roles alternate user, assistant, ...
C28_HistoryAlternates ==
    base_history = <<>> => Alternating(history)

\* a chat and an exhausted stream have been recorded, a third call was a
\* stream the consumer abandoned
C28_Witness ==
    /\ base_history = <<>>
    /\ StreamEnded("abandoned")
    /\ Len(history) = 4
    /\ pre.history = history

(***************************************************************************)
(* The response counter and the audio files.                               *)
(***************************************************************************)
\* the last call was a chat() that went to the voice cloner
VoiceAttempted ==
    \/ ChatReturned /\ last.cloned # "none"
    \/ ChatRaised /\ last.stage = "voice"

\* C29: response_counter is the number of voice syntheses chat() has
\* attempted since construction or the last reset, and the attempts were
\* numbered 1, 2, ... in order, so no two of them share a file name; a chat
\* without voice leaves the counter, one with voice adds one to it whether
\* cloning succeeds, fails or raises; a successful cloning writes the file
\* numbered by the counter; a reset zeroes the counter.
C29_CounterCountsAttempts ==
    /\ voice_log = [i \in 1..response_counter |-> i]
    /\ ChatReturned /\ last.cloned = "none" =>
          response_counter = pre.response_counter /\ audio_files = pre.audio_files
    /\ VoiceAttempted => response_counter = pre.response_counter + 1
    /\ ChatReturned /\ last.cloned = "success" =>
          /\ last.audio_path = response_counter
          /\ audio_files = pre.audio_files \cup {response_counter}
    /\ WasReset => response_counter = 0 /\ audio_files = pre.audio_files

\* the first voice turn after a reset writes response_1 again, over the file
\* of the first turn before the reset
C29_Witness ==
    /\ ChatReturned
    /\ last.cloned = "success"
    /\ last.audio_path = 1
    /\ 1 \in pre.audio_files
    /\ voice_log = <<1>>

(***************************************************************************)
(* addons/ears/src/engine.py: get_engine() and TranscriptionEngine.model,  *)
(* called from two threads.  A thread can be descheduled between any two   *)
(* statements: between the test of the global and the assignment to it,    *)
(* and between the test of _model and the assignment to it.                *)
(***************************************************************************)
MaxEngineCalls == 2

\* a test that always finds the global empty
engine_is_none_always(g) == TRUE

\* if _engine is None
engine_is_none(g) == g = NoInstance

\* TranscriptionEngine.__init__: self._model = None
TranscriptionEngine_init == [model |-> NoModel, loads |-> 0]

\* self._model = whisper.load_model(...): the n-th model object of the engine
load_model(e) == [model |-> e.loads + 1, loads |-> e.loads + 1]

InitEngine ==
    /\ PipelineIdle
    /\ ProfileIdle
    /\ AvatarIdle
    /\ EarsIdle
    /\ pc = "engine"
    /\ names = NoNames
    /\ subject_dirs = NoDirs

\* what no caller of the engine changes
EngineFrame ==
    UNCHANGED <<pipeline_vars, pc, dir_vars, profile_vars, avatar_vars, more_vars,
                request, handler, temp_files, response, served>>

Goto(t, next) == threads' = [threads EXCEPT ![t].pc = next]

\* a thread calls get_engine()
get_engine_call(t) ==
    /\ pc = "engine"
    /\ threads[t].pc = "idle"
    /\ threads[t].calls < MaxEngineCalls
    /\ threads' = [threads EXCEPT ![t].pc = "test", ![t].calls = @ + 1]
    /\ engine_log' = [engine_log EXCEPT !.overlapped =
                         @ \/ \E u \in Threads \ {t} : threads[u].pc # "idle"]
    /\ UNCHANGED <<global_engine, instances>>
    /\ EngineFrame

\* if _engine is None:
get_engine_test(t) ==
    /\ threads[t].pc = "test"
    /\ Goto(t, IF engine_is_none(global_engine) THEN "create" ELSE "return")
    /\ UNCHANGED <<global_engine, instances, engine_log>>
    /\ EngineFrame

\* _engine = TranscriptionEngine()
get_engine_create(t) ==
    /\ threads[t].pc = "create"
    /\ instances' = Append(instances, TranscriptionEngine_init)
    /\ global_engine' = Len(instances) + 1
    /\ Goto(t, "return")
    /\ UNCHANGED engine_log
    /\ EngineFrame

\* return _engine; the caller goes on to transcribe, or only wanted the engine
get_engine_return(t) ==
    /\ threads[t].pc = "return"
    /\ \E next \in {"model_test", "idle"} :
          threads' = [threads EXCEPT ![t].pc = next, ![t].engine = global_engine]
    /\ engine_log' = [engine_log EXCEPT !.got = @ \cup {global_engine}]
    /\ UNCHANGED <<global_engine, instances>>
    /\ EngineFrame

\* engine.transcribe reads self.model: if self._model is None:
model_test(t) ==
    /\ threads[t].pc = "model_test"
    /\ Goto(t, IF instances[threads[t].engine].model = NoModel
               THEN "model_load" ELSE "model_return")
    /\ UNCHANGED <<global_engine, instances, engine_log>>
    /\ EngineFrame

\* self._model = whisper.load_model(self.model_name), which can raise
model_load(t) ==
    /\ threads[t].pc = "model_load"
    /\ \/ /\ instances' = [instances EXCEPT ![threads[t].engine] = load_model(@)]
          /\ Goto(t, "model_return")
       \/ /\ Goto(t, "idle")
          /\ UNCHANGED instances
    /\ UNCHANGED <<global_engine, engine_log>>
    /\ EngineFrame

\* return self._model, and the transcription runs on that model
model_return(t) ==
    /\ threads[t].pc = "model_return"
    /\ engine_log' = [engine_log EXCEPT !.used =
                         @ \cup {<<threads[t].engine,
                                   instances[threads[t].engine].model>>}]
    /\ Goto(t, "idle")
    /\ UNCHANGED <<global_engine, instances>>
    /\ EngineFrame

NextEngine ==
    \E t \in Threads :
        \/ get_engine_call(t)
        \/ get_engine_test(t)
        \/ get_engine_create(t)
        \/ get_engine_return(t)
        \/ model_test(t)
        \/ model_load(t)
        \/ model_return(t)

SpecEngine == InitEngine /\ [][NextEngine]_vars

\* one instance was ever returned, one engine was ever made, it loaded its
\* model at most once and every transcription ran on that one model
SingletonLoadedOnce ==
    /\ Cardinality(engine_log.got) <= 1
    /\ Len(instances) <= 1
    /\ \A i \in DOMAIN instances : instances[i].loads <= 1
    /\ Cardinality(engine_log.used) <= 1

MaxRequests == 2

Handlers == {"transcribe", "url", "export"}

\* Path(name).suffix of the uploaded file's name or of the URL's path
Suffixes == {".mp3", ".WAV", ".exe", ""}

Formats == {"markdown", "json", "pdf"}

Requests == [handler : Handlers, suffix : Suffixes, output_format : Formats]

\* str.lower() on the suffixes of Suffixes
suffix_lower(x) == IF x = ".WAV" THEN ".wav" ELSE x

allowed_extensions == {".mp3", ".wav", ".ogg", ".m4a", ".flac", ".webm"}

\* file_ext of an upload handler
upload_ext(req) == suffix_lower(req.suffix)

\* file_ext of the URL handler: url_path.suffix.lower() or ".ogg"
url_ext(req) == IF suffix_lower(req.suffix) = "" THEN ".ogg" ELSE suffix_lower(req.suffix)

file_ext(req) == IF req.handler = "url" THEN url_ext(req) ELSE upload_ext(req)

\* a finally clause that deletes nothing
unlink_skipped(tf) == tf

\* Path(tmp_path).unlink(missing_ok=True)
unlink(tf) == [tf EXCEPT !.input = "deleted"]

InitServer ==
    /\ PipelineIdle
    /\ ProfileIdle
    /\ AvatarIdle
    /\ EarsIdle
    /\ pc = "server"
    /\ names = NoNames
    /\ subject_dirs = NoDirs

\* what no handler changes
ServerFrame ==
    UNCHANGED <<pipeline_vars, pc, dir_vars, profile_vars, avatar_vars, more_vars,
                threads>>

EngineUntouched == UNCHANGED <<global_engine, instances, engine_log>>

At(p) == handler.pc = p

\* the handler raises HTTPException(status) or dies with an exception (500)
Reject(status) ==
    /\ handler' = [handler EXCEPT !.pc = "done"]
    /\ response' = status

\* a request arrives and its handler starts
receive ==
    /\ pc = "server"
    /\ handler.pc \in {"idle", "done"}
    /\ served < MaxRequests
    /\ served' = served + 1
    /\ request' \in Requests
    /\ handler' = [pc |-> IF request'.handler = "url" THEN "download" ELSE "validate",
                   pending |-> NoStatus, engine_called |-> FALSE]
    /\ temp_files' = NoTemp
    /\ response' = NoStatus
    /\ EngineUntouched
    /\ ServerFrame

\* transcribe_file and transcribe_and_export: if file_ext not in allowed_extensions
validate_extension ==
    /\ At("validate")
    /\ IF upload_ext(request) \notin allowed_extensions
       THEN Reject(400)
       ELSE handler' = [handler EXCEPT !.pc = "save"] /\ UNCHANGED response
    /\ UNCHANGED <<request, temp_files, served>>
    /\ EngineUntouched
    /\ ServerFrame

\* transcribe_from_url: the download, whose failure is answered with 400
download ==
    /\ At("download")
    /\ \/ handler' = [handler EXCEPT !.pc = "save"] /\ UNCHANGED response
       \/ Reject(400)
    /\ UNCHANGED <<request, temp_files, served>>
    /\ EngineUntouched
    /\ ServerFrame

\* with NamedTemporaryFile(delete=False, suffix=file_ext) as tmp: tmp.write(content);
\* if reading or writing the content raises, the handler ends and the file stays
save_temp ==
    /\ At("save")
    /\ \/ /\ temp_files' = [temp_files EXCEPT !.input = "written",
                                              !.suffix = file_ext(request)]
          /\ handler' = [handler EXCEPT !.pc = "transcribe"]
          /\ UNCHANGED response
       \/ /\ temp_files' = [temp_files EXCEPT !.input = "created",
                                              !.suffix = file_ext(request)]
          /\ Reject(500)
    /\ UNCHANGED <<request, served>>
    /\ EngineUntouched
    /\ ServerFrame

\* the instances after get_engine() and, if loading, after the first read of model
EngineAfter(loading) ==
    LET made == IF engine_is_none(global_engine)
                THEN Append(instances, TranscriptionEngine_init) ELSE instances
        e    == IF engine_is_none(global_engine) THEN Len(made) ELSE global_engine
    IN  IF loading /\ made[e].model = NoModel
        THEN [made EXCEPT ![e] = load_model(@)] ELSE made

\* what the handler does once engine.transcribe has returned
after_transcribe(req) ==
    CASE req.handler = "transcribe" -> "finally"
      [] req.handler = "url"        -> "format"
      [] req.handler = "export"     -> "export"

\* engine = get_engine(); result = engine.transcribe(tmp_path, ...): the model
\* is loaded at the first use; loading or transcribing can raise
transcribe ==
    /\ At("transcribe")
    /\ global_engine' = IF engine_is_none(global_engine)
                        THEN Len(instances) + 1 ELSE global_engine
    /\ \/ /\ instances' = EngineAfter(TRUE)
          /\ engine_log' = [engine_log EXCEPT
                               !.got = @ \cup {global_engine'},
                               !.used = @ \cup {<<global_engine',
                                                  instances'[global_engine'].model>>}]
          /\ \/ handler' = [handler EXCEPT
                               !.pc = after_transcribe(request),
                               !.pending = IF request.handler = "transcribe"
                                           THEN 200 ELSE NoStatus,
                               !.engine_called = TRUE]
             \/ handler' = [handler EXCEPT !.pc = "finally", !.pending = 500,
                                           !.engine_called = TRUE]
       \/ /\ instances' = EngineAfter(FALSE)
          /\ instances'[global_engine'].model = NoModel
          /\ engine_log' = [engine_log EXCEPT !.got = @ \cup {global_engine'}]
          /\ handler' = [handler EXCEPT !.pc = "finally", !.pending = 500,
                                        !.engine_called = TRUE]
    /\ UNCHANGED <<request, temp_files, response, served>>
    /\ ServerFrame

\* transcribe_from_url: a JSON body, or formatter.format(...), which can raise
format_response ==
    /\ At("format")
    /\ \/ handler' = [handler EXCEPT !.pc = "finally", !.pending = 200]
       \/ /\ request.output_format # "json"
          /\ handler' = [handler EXCEPT !.pc = "finally", !.pending = 500]
    /\ UNCHANGED <<request, temp_files, response, served>>
    /\ EngineUntouched
    /\ ServerFrame

\* transcribe_and_export: the temporary output file and formatter.save(...)
export_file ==
    /\ At("export")
    /\ \/ /\ temp_files' = [temp_files EXCEPT !.output = "written"]
          /\ handler' = [handler EXCEPT !.pc = "finally", !.pending = 200]
       \/ /\ temp_files' \in {temp_files, [temp_files EXCEPT !.output = "created"]}
          /\ handler' = [handler EXCEPT !.pc = "finally", !.pending = 500]
    /\ UNCHANGED <<request, response, served>>
    /\ EngineUntouched
    /\ ServerFrame

\* finally: Path(tmp_path).unlink(missing_ok=True); then the response goes out
finally_unlink ==
    /\ At("finally")
    /\ temp_files' = unlink(temp_files)
    /\ handler' = [handler EXCEPT !.pc = "done"]
    /\ response' = handler.pending
    /\ UNCHANGED <<request, served>>
    /\ EngineUntouched
    /\ ServerFrame

NextServer ==
    \/ receive
    \/ validate_extension
    \/ download
    \/ save_temp
    \/ transcribe
    \/ format_response
    \/ export_file
    \/ finally_unlink

SpecServer == InitServer /\ [][NextServer]_vars

HandlerFinished == At("done")

\* once written, the temporary input file is gone when the handler has finished
InputDeleted ==
    /\ HandlerFinished => temp_files.input # "written"
    /\ HandlerFinished /\ handler.engine_called => temp_files.input = "deleted"
    /\ handler.engine_called /\ ~HandlerFinished => temp_files.input = "written"

\* a request of one of the handlers hs whose extension is not an allowed one
\* gets no temporary file and no engine call, and is answered with 400
RejectedEarly(hs) ==
    (request.handler \in hs /\ file_ext(request) \notin allowed_extensions) =>
        /\ temp_files = NoTemp
        /\ ~handler.engine_called
        /\ HandlerFinished => response = 400

\* C30 as claimed: in the three handlers the written temporary input file is
\* deleted before the handler finishes, whatever transcription and formatting
\* do, and a request with an unsupported extension is rejected with 400
\* before a temporary file is created or the engine is called.
C30_AllHandlersReject == InputDeleted /\ RejectedEarly(Handlers)

\* C30 amended: the same for the temporary input file in the three handlers;
\* the rejection with 400 holds for the two upload handlers, /api/transcribe
\* and /api/transcribe/export.
C30_UploadHandlersReject == InputDeleted /\ RejectedEarly({"transcribe", "export"})

\* an export whose formatter raised: the input file is deleted and the
\* output file is left
C30_Witness ==
    /\ HandlerFinished
    /\ request.handler = "export"
    /\ handler.engine_called
    /\ response = 500
    /\ temp_files.input = "deleted"
    /\ temp_files.output = "created"
    /\ temp_files.suffix = ".wav"

====
